---- MODULE Spec2Model ----
(***************************************************************************)
(* Memory store and semantic retrieval engine.                             *)
(*                                                                         *)
(* The model follows services/database_service.py (DatabaseService: the    *)
(* two DynamoDB tables and the in-memory vector_store) and                 *)
(* services/parser_service.py (ParserService.parse_file and                *)
(* parse_text_input, the ingestion coordinator, and the text chunker).     *)
(*                                                                         *)
(* The route handlers are "async def" functions whose bodies call the      *)
(* services synchronously, so on the single uvicorn event loop             *)
(* (main.py:97) every handler runs to completion: one action per handler.  *)
(* The calls to DynamoDB and to the embedding provider can raise; which    *)
(* call raises is an input of the action.                                  *)
(***************************************************************************)
EXTENDS Integers, Sequences, FiniteSets, TLC

VARIABLES
    memories,           \* DynamoDB table unimem-memories: id -> item
    embeddings,         \* DynamoDB table unimem-embeddings: id -> item
    vector_store,       \* DatabaseService.vector_store (insertion-ordered dict)
    dynamodb_disabled,  \* DatabaseService.dynamodb_disabled
    uuid_count,         \* number of uuid4() values drawn so far
    last,               \* the request being answered and what it returns
    scan,               \* the frame of the semantic_search call under way
    conversation_history \* AIAgentService.conversation_history: id -> turns

vars == <<memories, embeddings, vector_store, dynamodb_disabled, uuid_count, last, scan,
          conversation_history>>

-----------------------------------------------------------------------------
(* Bounds of the model *)

\* uuid4() values the model may draw
MaxIds == 2

\* longest chunk list _split_text_into_chunks may hand to _parse_pdf
MaxChunks == 3

\* longest extracted text handed to the chunker, in characters
MaxTextLen == 6

\* the messages a client sends in one conversation
MaxTurns == 22

\* the messages of one conversation between two starts of the service
MaxChats == 1

-----------------------------------------------------------------------------
(* Value universes *)

Users == {"u1", "u2"}

\* Texts a caller may ingest (a text, or one chunk of a document)
Texts == {"a", "b"}

\* Query vectors a search may be called with
Vectors == {<<1, 0>>, <<3, 4>>, <<0, 0>>}

\* limit values of a search
Limits == {1, 10}

\* similarity thresholds, in hundredths: 0.1, 0.7 (the default), 1.1
Thresholds == {10, 70, 110}

\* Python's None, where an id is expected
None == <<>>

\* the n-th value returned by uuid.uuid4()
Uuid(n) == <<"uuid", n>>

AllIds == {Uuid(n) : n \in 1..MaxIds}

\* an id no uuid4() call of this process ever returns
StrangerId == <<"uuid", 0>>

\* Python's {**base, **over}: keys of over win
Merge(base, over) ==
    [k \in (DOMAIN base) \cup (DOMAIN over) |->
        IF k \in DOMAIN over THEN over[k] ELSE base[k]]

\* dict.get(key, default)
Get(d, k, default) == IF k \in DOMAIN d THEN d[k] ELSE default

-----------------------------------------------------------------------------
(* Embedding provider and vector arithmetic *)

\* embedding_service.generate_embedding(text, "passage") when it does not raise
GenerateEmbedding(text) ==
    IF text = "a" THEN <<1, 0>> ELSE <<3, 4>>

\* Decimal(str(float(x))): sign, coefficient, exponent of "d.0"
ToDecimal(x) ==
    [sign |-> IF x < 0 THEN 1 ELSE 0,
     coeff |-> (IF x < 0 THEN -x ELSE x) * 10,
     exp |-> -1]

\* float(Decimal)
FromDecimal(d) ==
    (IF d.sign = 1 THEN -1 ELSE 1) * (d.coeff \div 10)

Dot(v, w) == v[1] * w[1] + v[2] * w[2]

\* np.linalg.norm, exact for the vectors of the model
Norm(v) == CHOOSE n \in 0..5 : n * n = Dot(v, v)

\* np.dot(q, e) / (norm(q) * norm(e)), in hundredths; 0.0 / 0.0 is nan
CosineSimilarity(q, e) ==
    LET norms == Norm(q) * Norm(e)
    IN  IF norms = 0 THEN [nan |-> TRUE, value |-> 0]
        ELSE [nan |-> FALSE, value |-> (Dot(q, e) * 100) \div norms]

\* a comparison that lets every similarity but nan pass
NotNan(similarity, threshold) == ~similarity.nan

\* similarity >= threshold (every comparison with nan is False)
AtLeast(similarity, threshold) ==
    ~similarity.nan /\ similarity.value >= threshold

-----------------------------------------------------------------------------
(* DatabaseService *)

\* the state a call works on: the two tables, the cache and the uuid counter
Db == [memories |-> memories, embeddings |-> embeddings,
       vector_store |-> vector_store, uuid_count |-> uuid_count]

\* table.put_item(Item=item)
PutItem(table, id, item) ==
    [k \in (DOMAIN table) \cup {id} |-> IF k = id THEN item ELSE table[k]]

\* table.delete_item(Key={'id': id}); deleting an absent key succeeds
DeleteItem(table, id) == [k \in (DOMAIN table) \ {id} |-> table[k]]

\* a create_memory that stores no tags
TagsDropped(tags) == <<>>

\* tags or []
TagsOrEmpty(tags) == IF Len(tags) = 0 THEN <<>> ELSE tags

\* memory_data of create_memory
MemoryData(memory_id, user_id, content, memory_type, metadata, tags) ==
    [id |-> memory_id, user_id |-> user_id, content |-> content,
     memory_type |-> memory_type, metadata |-> metadata,
     tags |-> TagsOrEmpty(tags)]

\* vector_data of create_memory
VectorData(memory_id, user_id, embedding) ==
    [id |-> memory_id, user_id |-> user_id,
     embedding |-> [i \in DOMAIN embedding |-> ToDecimal(embedding[i])],
     memory_id |-> memory_id]

\* the vector_store entry create_memory writes: it has no 'user_id' key
CreatedCacheEntry(memory_id, user_id, embedding) ==
    [embedding |-> embedding, memory_id |-> memory_id]

\* the vector_store entry _load_vectors_to_memory writes for one scanned item
LoadedCacheEntry(item) ==
    [embedding |-> [i \in DOMAIN item.embedding |-> FromDecimal(item.embedding[i])],
     memory_id |-> item.id,
     user_id |-> Get(item, "user_id", "None")]

\* vector_store[memory_id] = entry, on an insertion-ordered dict
StoreEntry(store, entry) ==
    IF \E i \in DOMAIN store : store[i].memory_id = entry.memory_id
    THEN [i \in DOMAIN store |->
            IF store[i].memory_id = entry.memory_id THEN entry ELSE store[i]]
    ELSE Append(store, entry)

\* a delete_memory that forgets the vector_store
RemoveNothing(store, memory_id) == store

\* del vector_store[memory_id], guarded by "if memory_id in self.vector_store"
RemoveEntry(store, memory_id) ==
    SelectSeq(store, LAMBDA e : e.memory_id # memory_id)

CacheIds(store) == {store[i].memory_id : i \in DOMAIN store}

\* vector_store[memory_id].get('user_id'), "None" without an entry or an owner
CacheOwner(store, memory_id) ==
    IF memory_id \in CacheIds(store)
    THEN Get(store[CHOOSE i \in DOMAIN store : store[i].memory_id = memory_id],
             "user_id", "None")
    ELSE "None"

\* one call to a collaborator, and whether it returned (TRUE) or raised (FALSE)
Call(name, ok) == [call |-> name, ok |-> ok]

\* the arguments a call of create_memory was given
CreateArgs(content, memory_type, user_id, tags) ==
    [content |-> content, memory_type |-> memory_type, user_id |-> user_id,
     tags |-> tags]

\* what a call of create_memory can do: run through, or raise at a put_item
CreateFaults == {"none", "put_memory", "put_vector"}

\* a create_memory that fills the vector_store before it writes to DynamoDB
CreateMemoryCacheFirst(db, disabled, content, memory_type, embedding, user_id, metadata, tags, fault) ==
    IF disabled
    THEN [db |-> db, raised |-> FALSE, memory_id |-> None, calls |-> <<>>,
          args |-> CreateArgs(content, memory_type, user_id, tags)]
    ELSE
      LET memory_id == Uuid(db.uuid_count + 1)
          db0 == [db EXCEPT !.uuid_count = @ + 1,
                            !.vector_store =
                                StoreEntry(@, CreatedCacheEntry(memory_id, user_id, embedding))]
          db1 == [db0 EXCEPT !.memories = PutItem(@, memory_id,
                     MemoryData(memory_id, user_id, content, memory_type, metadata, tags))]
          db2 == [db1 EXCEPT !.embeddings = PutItem(@, memory_id,
                     VectorData(memory_id, user_id, embedding))]
      IN  CASE fault = "put_memory" ->
                 [db |-> db0, raised |-> TRUE, memory_id |-> None,
                  calls |-> <<Call("cache_insert", TRUE), Call("put_memory", FALSE)>>,
                  args |-> CreateArgs(content, memory_type, user_id, tags)]
            [] fault = "put_vector" ->
                 [db |-> db1, raised |-> TRUE, memory_id |-> None,
                  calls |-> <<Call("cache_insert", TRUE), Call("put_memory", TRUE),
                              Call("put_vector", FALSE)>>,
                  args |-> CreateArgs(content, memory_type, user_id, tags)]
            [] OTHER ->
                 [db |-> db2, raised |-> FALSE, memory_id |-> memory_id,
                  calls |-> <<Call("cache_insert", TRUE), Call("put_memory", TRUE),
                              Call("put_vector", TRUE)>>,
                  args |-> CreateArgs(content, memory_type, user_id, tags)]

\* create_memory: the new state, whether it raised, and the id it returned
CreateMemory(db, disabled, content, memory_type, embedding, user_id, metadata, tags, fault) ==
    IF disabled
    THEN [db |-> db, raised |-> FALSE, memory_id |-> None, calls |-> <<>>,
          args |-> CreateArgs(content, memory_type, user_id, tags)]
    ELSE
      LET memory_id == Uuid(db.uuid_count + 1)
          db0 == [db EXCEPT !.uuid_count = @ + 1]
          memory_data == MemoryData(memory_id, user_id, content, memory_type, metadata, tags)
          vector_data == VectorData(memory_id, user_id, embedding)
          db1 == [db0 EXCEPT !.memories = PutItem(@, memory_id, memory_data)]
          db2 == [db1 EXCEPT !.embeddings = PutItem(@, memory_id, vector_data)]
          db3 == [db2 EXCEPT !.vector_store =
                     StoreEntry(@, CreatedCacheEntry(memory_id, user_id, embedding))]
      IN  CASE fault = "put_memory" ->
                 [db |-> db0, raised |-> TRUE, memory_id |-> None,
                  calls |-> <<Call("put_memory", FALSE)>>,
                  args |-> CreateArgs(content, memory_type, user_id, tags)]
            [] fault = "put_vector" ->
                 [db |-> db1, raised |-> TRUE, memory_id |-> None,
                  calls |-> <<Call("put_memory", TRUE), Call("put_vector", FALSE)>>,
                  args |-> CreateArgs(content, memory_type, user_id, tags)]
            [] OTHER ->
                 [db |-> db3, raised |-> FALSE, memory_id |-> memory_id,
                  calls |-> <<Call("put_memory", TRUE), Call("put_vector", TRUE),
                              Call("cache_insert", TRUE)>>,
                  args |-> CreateArgs(content, memory_type, user_id, tags)]

\* get_memory_by_id; read_fails: table.get_item raises, which returns None
GetMemoryById(db, disabled, memory_id, read_fails) ==
    IF disabled THEN None
    ELSE IF read_fails THEN None
    ELSE IF memory_id \in DOMAIN db.memories THEN db.memories[memory_id]
    ELSE None

\* line 277: the entry is skipped unless vector_data.get('user_id') == user_id
EntryOwnedBy(vector_data, user_id) == Get(vector_data, "user_id", "None") = user_id

\* line 292: memory and memory.get('user_id') == user_id
MemoryOwnedBy(memory, user_id) ==
    memory # None /\ Get(memory, "user_id", "None") = user_id

\* results.sort(key=similarity_score, reverse=True): stable, descending
RECURSIVE InsertDesc(_, _)
InsertDesc(sorted, r) ==
    IF sorted = <<>> THEN <<r>>
    ELSE IF Head(sorted).similarity_score >= r.similarity_score
         THEN <<Head(sorted)>> \o InsertDesc(Tail(sorted), r)
         ELSE <<r>> \o sorted

\* a semantic_search that leaves the results in the order of the scan
Unsorted(results) == results

RECURSIVE SortDesc(_)
SortDesc(results) ==
    IF results = <<>> THEN <<>>
    ELSE InsertDesc(SortDesc(SubSeq(results, 1, Len(results) - 1)),
                    results[Len(results)])

\* results[:limit]
Truncate(results, limit) ==
    SubSeq(results, 1, IF Len(results) < limit THEN Len(results) ELSE limit)

\* a semantic_search loop that checks no owner
RECURSIVE ScanStoreAnyOwner(_, _, _, _, _, _, _)
ScanStoreAnyOwner(db, disabled, query_vector, user_id, threshold, unreadable, i) ==
    IF i > Len(db.vector_store) THEN <<>>
    ELSE
      LET vector_data == db.vector_store[i]
          memory_id == vector_data.memory_id
          rest == ScanStoreAnyOwner(db, disabled, query_vector, user_id, threshold,
                                    unreadable, i + 1)
          similarity == CosineSimilarity(query_vector, vector_data.embedding)
          memory == GetMemoryById(db, disabled, memory_id, memory_id \in unreadable)
      IN  IF AtLeast(similarity, threshold) /\ memory # None
          THEN <<[memory |-> memory, similarity_score |-> similarity.value]>> \o rest
          ELSE rest

\* a semantic_search loop that gives up at the first entry without a record
RECURSIVE ScanStoreUntilDangling(_, _, _, _, _, _, _)
ScanStoreUntilDangling(db, disabled, query_vector, user_id, threshold, unreadable, i) ==
    IF i > Len(db.vector_store) THEN <<>>
    ELSE
      LET vector_data == db.vector_store[i]
          memory_id == vector_data.memory_id
          rest == ScanStoreUntilDangling(db, disabled, query_vector, user_id, threshold,
                                         unreadable, i + 1)
          similarity == CosineSimilarity(query_vector, vector_data.embedding)
          memory == GetMemoryById(db, disabled, memory_id, memory_id \in unreadable)
      IN  IF ~EntryOwnedBy(vector_data, user_id) THEN rest
          ELSE IF ~AtLeast(similarity, threshold) THEN rest
          ELSE IF memory = None THEN <<>>
          ELSE IF MemoryOwnedBy(memory, user_id)
               THEN <<[memory |-> memory, similarity_score |-> similarity.value]>> \o rest
               ELSE rest

\* the loop of semantic_search over vector_store.items(), from entry i on
RECURSIVE ScanStore(_, _, _, _, _, _, _)
ScanStore(db, disabled, query_vector, user_id, threshold, unreadable, i) ==
    IF i > Len(db.vector_store) THEN <<>>
    ELSE
      LET vector_data == db.vector_store[i]
          memory_id == vector_data.memory_id
          rest == ScanStore(db, disabled, query_vector, user_id, threshold, unreadable, i + 1)
          similarity == CosineSimilarity(query_vector, vector_data.embedding)
          memory == GetMemoryById(db, disabled, memory_id, memory_id \in unreadable)
      IN  IF ~EntryOwnedBy(vector_data, user_id) THEN rest
          ELSE IF AtLeast(similarity, threshold) /\ MemoryOwnedBy(memory, user_id)
               THEN <<[memory |-> memory, similarity_score |-> similarity.value]>> \o rest
               ELSE rest

\* semantic_search; unreadable: the ids whose get_item raises during this search
SemanticSearch(db, disabled, query_embedding, user_id, limit, threshold, unreadable) ==
    Truncate(SortDesc(ScanStore(db, disabled, query_embedding, user_id,
                                threshold, unreadable, 1)), limit)

\* a Python call binds: every keyword is a parameter of the function and
\* every parameter without a default is given; otherwise it raises TypeError
Binds(parameters, required, keywords) ==
    keywords \subseteq parameters /\ required \subseteq keywords

\* def semantic_search(self, query_embedding, user_id, limit=10, threshold=0.7)
SemanticSearchParameters == {"query_embedding", "user_id", "limit", "threshold"}
SemanticSearchRequired == {"query_embedding", "user_id"}

\* def get_related_memories(self, memory_id, limit=5)
GetRelatedParameters == {"memory_id", "limit"}
GetRelatedRequired == {"memory_id"}

\* [r for r in results if r['memory']['id'] != memory_id][:limit]
Related(results, memory_id, limit) ==
    Truncate(SelectSeq(results, LAMBDA r : r.memory.id # memory_id), limit)

\* the query embedding of get_related_memories: the cached vector of the memory
CachedEmbedding(store, memory_id) ==
    store[CHOOSE i \in DOMAIN store : store[i].memory_id = memory_id].embedding

\* a get_related_memories that takes user_id and searches the entries of
\* every owner
GetRelatedMemoriesAnyOwner(db, disabled, memory_id, limit, keywords) ==
    IF memory_id \notin CacheIds(db.vector_store)
    THEN [raised |-> FALSE, related |-> <<>>]
    ELSE [raised |-> FALSE,
          related |-> Related(
              Truncate(SortDesc(ScanStoreAnyOwner(db, disabled,
                           CachedEmbedding(db.vector_store, memory_id),
                           "None", 50, {}, 1)), limit + 1),
              memory_id, limit)]

\* get_related_memories, called with the given keyword arguments: whether it
\* raised and what it returned. Its call of semantic_search passes
\* query_embedding, limit and threshold, and no user_id
GetRelatedMemories(db, disabled, memory_id, limit, keywords) ==
    IF ~Binds(GetRelatedParameters, GetRelatedRequired, keywords)
    THEN [raised |-> TRUE, related |-> <<>>]
    ELSE IF memory_id \notin CacheIds(db.vector_store)
    THEN [raised |-> FALSE, related |-> <<>>]
    ELSE IF ~Binds(SemanticSearchParameters, SemanticSearchRequired,
                   {"query_embedding", "limit", "threshold"})
    THEN [raised |-> TRUE, related |-> <<>>]
    ELSE [raised |-> FALSE,
          related |-> Related(
              SemanticSearch(db, disabled,
                             CachedEmbedding(db.vector_store, memory_id),
                             "None", limit + 1, 50, {}),
              memory_id, limit)]

\* what a call of delete_memory can do: run through, or raise at a delete_item
DeleteFaults == {"none", "delete_memory", "delete_vector"}

\* delete_memory: the new state and the bool it returns; with DynamoDB disabled
\* self.dynamodb is None and the first Table() call raises
DeleteMemory(db, disabled, memory_id, fault) ==
    LET db1 == [db EXCEPT !.memories = DeleteItem(@, memory_id)]
        db2 == [db1 EXCEPT !.embeddings = DeleteItem(@, memory_id)]
        db3 == [db2 EXCEPT !.vector_store = RemoveEntry(@, memory_id)]
    IN  CASE disabled \/ fault = "delete_memory" -> [db |-> db, success |-> FALSE]
          [] fault = "delete_vector" -> [db |-> db1, success |-> FALSE]
          [] OTHER -> [db |-> db3, success |-> TRUE]

\* the loop of _load_vectors_to_memory over the items of the scan response,
\* inside its try block: an item of bad raises at item['embedding'] or at
\* float(x), which leaves the loop for the except block
RECURSIVE LoadVectors(_, _, _, _)
LoadVectors(store, table, items, bad) ==
    IF items = <<>> THEN store
    ELSE IF Head(items) \in bad THEN store
    ELSE LoadVectors(StoreEntry(store, LoadedCacheEntry(table[Head(items)])),
                     table, Tail(items), bad)

\* created_at of an item, as a rank: create_memory stamps utcnow() on the
\* item it builds for its uuid, so the n-th item created has the n-th stamp
CreatedAt(item) == item.id[2]

\* memories.sort(key=created_at, reverse=True)
RECURSIVE SortByCreatedAtDesc(_)
SortByCreatedAtDesc(items) ==
    IF items = <<>> THEN <<>>
    ELSE LET newest == CHOOSE i \in DOMAIN items :
                          \A j \in DOMAIN items :
                              CreatedAt(items[j]) <= CreatedAt(items[i])
         IN  <<items[newest]>>
             \o SortByCreatedAtDesc([k \in 1..(Len(items) - 1) |->
                                       IF k < newest THEN items[k] ELSE items[k + 1]])

\* memories[offset:offset + limit]
Slice(items, offset, limit) ==
    SubSeq(items, offset + 1,
           IF offset + limit < Len(items) THEN offset + limit ELSE Len(items))

\* the items a scan or query of DynamoDB returns for Limit and a
\* FilterExpression on user_id: Limit bounds the items read, and the filter
\* is applied to those
ReadThenFilter(table, order, limit, user_id) ==
    LET read == SubSeq(order, 1, IF Len(order) < limit THEN Len(order) ELSE limit)
        items == [k \in DOMAIN read |-> table[read[k]]]
    IN  SelectSeq(items, LAMBDA item : Get(item, "user_id", "None") = user_id)

\* the ids of the items of one memory_type, in an order of the table
OfType(table, order, memory_type) ==
    SelectSeq(order, LAMBDA id : table[id].memory_type = memory_type)

\* the ids of memory_type_index for one memory_type with ScanIndexForward
\* False: by created_at, newest first
IndexOrderDesc(table, order, memory_type) ==
    LET ids == OfType(table, order, memory_type)
        sorted == SortByCreatedAtDesc([k \in DOMAIN ids |-> table[ids[k]]])
    IN  [k \in DOMAIN sorted |-> sorted[k].id]

\* get_memories without dates; memory_type "None": no type is asked for;
\* order: the order in which the scan reads the table; read_fails: the scan
\* or query raises, which returns []
GetMemories(db, disabled, user_id, limit, offset, memory_type, order, read_fails) ==
    IF disabled \/ read_fails THEN <<>>
    ELSE LET found == IF memory_type # "None"
                      THEN ReadThenFilter(db.memories,
                               IndexOrderDesc(db.memories, order, memory_type),
                               limit, user_id)
                      ELSE ReadThenFilter(db.memories, order, limit, user_id)
         IN  Slice(SortByCreatedAtDesc(found), offset, limit)

\* the orders in which vectors_table.scan() may return the items of a table
ScanOrders(table) ==
    {o \in [1..Cardinality(DOMAIN table) -> DOMAIN table] :
        \A i, j \in DOMAIN o : i # j => o[i] # o[j]}

\* response.get('Items', []) of the one vectors_table.scan() call: a scan
\* returns one page of the table (at most 1 MB) and a LastEvaluatedKey for
\* the rest, which _load_vectors_to_memory does not follow
ScanItems(order, page) == SubSeq(order, 1, page)

\* the number of items the first page of a scan may hold
PageSizes(order) == IF order = <<>> THEN {0} ELSE 1..Len(order)

\* the vector records that fail to deserialize during one load: none or one
BadRecords(table) == {{}} \cup {{id} : id \in DOMAIN table}

-----------------------------------------------------------------------------
(* ParserService *)

\* The characters of an extracted text. A text is a sequence of characters:
\* a Latin letter, a CJK ideograph (in the range U+4E00..U+9FFF), a blank,
\* a line feed, and the ideographic full stop U+3002 (written "." here)
Letter == "w"
Ideograph == "z"
Blank == " "
LineFeed == "\n"
FullStop == "."

Chars == {Letter, Ideograph, Blank, LineFeed, FullStop}

\* the characters str.strip() and str.split() take for whitespace
Whitespace == {Blank, LineFeed}

\* max_tokens values of the chunker (the default is self.max_tokens)
Budgets == {1, 3}

\* the texts of at most n characters
TextsUpTo(n) == UNION {[1..k -> Chars] : k \in 0..n}

\* a text.strip() that strips nothing
StripNothing(text) == text

\* text.strip()
RECURSIVE Strip(_)
Strip(text) ==
    IF text = <<>> THEN <<>>
    ELSE IF Head(text) \in Whitespace THEN Strip(Tail(text))
    ELSE IF text[Len(text)] \in Whitespace THEN Strip(SubSeq(text, 1, Len(text) - 1))
    ELSE text

\* text.split(sep): cut at every occurrence of sep, found from left to right
RECURSIVE SplitOn(_, _)
SplitOn(text, sep) ==
    LET hits == {i \in 1..(Len(text) - Len(sep) + 1) :
                    SubSeq(text, i, i + Len(sep) - 1) = sep}
    IN  IF hits = {} THEN <<text>>
        ELSE LET i == CHOOSE h \in hits : \A g \in hits : h <= g
             IN  <<SubSeq(text, 1, i - 1)>>
                 \o SplitOn(SubSeq(text, i + Len(sep), Len(text)), sep)

\* len(text.split()): the number of runs of characters that are not whitespace
Words(text) ==
    Cardinality({i \in 1..Len(text) :
                    /\ text[i] \notin Whitespace
                    /\ (i = 1 \/ text[i - 1] \in Whitespace)})

\* len([c for c in text if '\u4e00' <= c <= '\u9fff'])
ChineseChars(text) == Cardinality({i \in 1..Len(text) : text[i] = Ideograph})

\* estimate_tokens: int(chinese_chars * 1.2 + english_words * 1.5); the float
\* sum truncated by int() is the integer quotient below for counts up to 200
EstimateTokens(text) == (12 * ChineseChars(text) + 15 * Words(text)) \div 10

\* chunks.append(current_chunk.strip()) under "if current_chunk:"
Flush(chunks, current_chunk) ==
    IF current_chunk # <<>> THEN Append(chunks, Strip(current_chunk)) ELSE chunks

\* the loop of _split_long_paragraph over the sentences, from sentence i on
RECURSIVE PackSentences(_, _, _, _, _)
PackSentences(sentences, i, chunks, current_chunk, max_tokens) ==
    IF i > Len(sentences) THEN Flush(chunks, current_chunk)
    ELSE LET sentence == sentences[i]
         IN  IF Strip(sentence) = <<>>
             THEN PackSentences(sentences, i + 1, chunks, current_chunk, max_tokens)
             ELSE IF EstimateTokens(current_chunk \o sentence) <= max_tokens
             THEN PackSentences(sentences, i + 1, chunks,
                                current_chunk \o sentence \o <<FullStop>>, max_tokens)
             ELSE PackSentences(sentences, i + 1, Flush(chunks, current_chunk),
                                sentence \o <<FullStop>>, max_tokens)

\* _split_long_paragraph
SplitLongParagraph(paragraph, max_tokens) ==
    PackSentences(SplitOn(paragraph, <<FullStop>>), 1, <<>>, <<>>, max_tokens)

\* a paragraph loop that leaves out the paragraphs that do not fit the
\* current chunk
RECURSIVE PackParagraphsDropping(_, _, _, _, _)
PackParagraphsDropping(paragraphs, i, chunks, current_chunk, max_tokens) ==
    IF i > Len(paragraphs) THEN Flush(chunks, current_chunk)
    ELSE LET paragraph == paragraphs[i]
         IN  IF EstimateTokens(paragraph) > max_tokens
             THEN PackParagraphsDropping(paragraphs, i + 1,
                                 Flush(chunks, current_chunk)
                                     \o SplitLongParagraph(paragraph, max_tokens),
                                 <<>>, max_tokens)
             ELSE IF EstimateTokens(current_chunk \o paragraph) <= max_tokens
             THEN PackParagraphsDropping(paragraphs, i + 1, chunks,
                                 current_chunk \o paragraph \o <<LineFeed, LineFeed>>,
                                 max_tokens)
             ELSE PackParagraphsDropping(paragraphs, i + 1, chunks, current_chunk,
                                         max_tokens)

\* the loop of _split_text_into_chunks over the paragraphs, from paragraph i on
RECURSIVE PackParagraphs(_, _, _, _, _)
PackParagraphs(paragraphs, i, chunks, current_chunk, max_tokens) ==
    IF i > Len(paragraphs) THEN Flush(chunks, current_chunk)
    ELSE LET paragraph == paragraphs[i]
         IN  IF EstimateTokens(paragraph) > max_tokens
             THEN PackParagraphs(paragraphs, i + 1,
                                 Flush(chunks, current_chunk)
                                     \o SplitLongParagraph(paragraph, max_tokens),
                                 <<>>, max_tokens)
             ELSE IF EstimateTokens(current_chunk \o paragraph) <= max_tokens
             THEN PackParagraphs(paragraphs, i + 1, chunks,
                                 current_chunk \o paragraph \o <<LineFeed, LineFeed>>,
                                 max_tokens)
             ELSE PackParagraphs(paragraphs, i + 1, Flush(chunks, current_chunk),
                                 paragraph \o <<LineFeed, LineFeed>>, max_tokens)

\* _split_text_into_chunks
SplitTextIntoChunks(text, max_tokens) ==
    IF EstimateTokens(text) <= max_tokens THEN <<text>>
    ELSE PackParagraphs(SplitOn(text, <<LineFeed, LineFeed>>), 1, <<>>, <<>>,
                        max_tokens)

\* what the processing of one chunk can do: run through, or raise at the
\* embedding request or at a put_item of create_memory
ChunkFaults == {"none", "embed", "put_memory", "put_vector"}

\* the fault create_memory sees when the chunk's fault is f
CreateFaultOf(f) == IF f \in CreateFaults THEN f ELSE "none"

\* _parse_pdf, from the chunk list on (lines 257-285); text_chunks is
\* _split_text_into_chunks(text), and a one-chunk list holds the text itself
ParsePdf(text_chunks) ==
    IF Len(text_chunks) > 1
    THEN [text |-> text_chunks[1], type |-> "document",
          metadata |-> [parser |-> "PyPDF2", total_chunks |-> Len(text_chunks),
                        chunk_index |-> 0, is_partial |-> TRUE],
          tags |-> <<"pdf", "document">>,
          additional_chunks |-> Tail(text_chunks)]
    ELSE [text |-> text_chunks[1], type |-> "document",
          metadata |-> [parser |-> "PyPDF2"],
          tags |-> <<"pdf", "document">>]


\* metadata of the first create_memory of parse_file (lines 147-154)
PrimaryMetadata(file_extension, parsed_content) ==
    Merge([file_extension |-> file_extension], Get(parsed_content, "metadata", <<>>))

\* metadata of the create_memory of additional chunk i (lines 176-186): the
\* chunk's own keys first, then **parsed_content.get('metadata', {})
ChunkMetadata(file_extension, i, parsed_content) ==
    Merge([file_extension |-> file_extension,
           chunk_index |-> i + 1,
           total_chunks |-> Get(parsed_content.metadata, "total_chunks", 1),
           is_partial |-> TRUE],
          Get(parsed_content, "metadata", <<>>))

\* the calls of one chunk, tagged with the position of the chunk in the document
Tagged(calls, chunk) ==
    [j \in DOMAIN calls |-> [call |-> calls[j].call, ok |-> calls[j].ok, chunk |-> chunk]]

\* a chunk loop that stops at the first chunk that fails
RECURSIVE ProcessChunksStopAtFailure(_, _, _, _, _, _, _)
ProcessChunksStopAtFailure(acc, disabled, parsed_content, file_extension, user_id, outcomes, i) ==
    IF i >= Len(parsed_content.additional_chunks) THEN acc
    ELSE
      LET chunk == parsed_content.additional_chunks[i + 1]
          fault == outcomes[i + 2]
          created == CreateMemory(acc.db, disabled, chunk, parsed_content.type,
                                  GenerateEmbedding(chunk), user_id,
                                  [chunk_index |-> i + 1],
                                  Get(parsed_content, "tags", <<>>),
                                  CreateFaultOf(fault))
      IN  IF fault = "embed"
          THEN [acc EXCEPT !.calls = @ \o Tagged(<<Call("embed", FALSE)>>, i + 1)]
          ELSE IF created.raised
          THEN [db |-> created.db,
                additional_memories |-> acc.additional_memories,
                calls |-> acc.calls
                          \o Tagged(<<Call("embed", TRUE)>> \o created.calls, i + 1)]
          ELSE ProcessChunksStopAtFailure(
                 [db |-> created.db,
                  additional_memories |-> Append(acc.additional_memories,
                      [memory_id |-> created.memory_id, chunk_index |-> i + 1]),
                  calls |-> acc.calls
                            \o Tagged(<<Call("embed", TRUE)>> \o created.calls, i + 1)],
                 disabled, parsed_content, file_extension, user_id, outcomes, i + 1)

\* a chunk loop that requests the embedding of a chunk ahead of everything
\* done so far
RECURSIVE ProcessChunksEmbedAhead(_, _, _, _, _, _, _)
ProcessChunksEmbedAhead(acc, disabled, parsed_content, file_extension, user_id, outcomes, i) ==
    IF i >= Len(parsed_content.additional_chunks) THEN acc
    ELSE
      LET chunk == parsed_content.additional_chunks[i + 1]
          fault == outcomes[i + 2]
          created == CreateMemory(acc.db, disabled, chunk, parsed_content.type,
                                  GenerateEmbedding(chunk), user_id,
                                  ChunkMetadata(file_extension, i, parsed_content),
                                  Get(parsed_content, "tags", <<>>),
                                  CreateFaultOf(fault))
          next ==
            IF fault = "embed"
            THEN [acc EXCEPT !.calls = Tagged(<<Call("embed", FALSE)>>, i + 1) \o @]
            ELSE IF created.raised
            THEN [db |-> created.db,
                  additional_memories |-> acc.additional_memories,
                  calls |-> Tagged(<<Call("embed", TRUE)>>, i + 1) \o acc.calls
                            \o Tagged(created.calls, i + 1)]
            ELSE [db |-> created.db,
                  additional_memories |-> Append(acc.additional_memories,
                      [memory_id |-> created.memory_id, chunk_index |-> i + 1]),
                  calls |-> Tagged(<<Call("embed", TRUE)>>, i + 1) \o acc.calls
                            \o Tagged(created.calls, i + 1)]
      IN  ProcessChunksEmbedAhead(next, disabled, parsed_content, file_extension,
                                  user_id, outcomes, i + 1)

\* the loop of parse_file over enumerate(additional_chunks), from index i on;
\* acc: the state, additional_memories and the calls made so far
RECURSIVE ProcessChunks(_, _, _, _, _, _, _)
ProcessChunks(acc, disabled, parsed_content, file_extension, user_id, outcomes, i) ==
    IF i >= Len(parsed_content.additional_chunks) THEN acc
    ELSE
      LET chunk == parsed_content.additional_chunks[i + 1]
          fault == outcomes[i + 2]
          created == CreateMemory(acc.db, disabled, chunk, parsed_content.type,
                                  GenerateEmbedding(chunk), user_id,
                                  ChunkMetadata(file_extension, i, parsed_content),
                                  Get(parsed_content, "tags", <<>>),
                                  CreateFaultOf(fault))
          next ==
            IF fault = "embed"
            THEN [acc EXCEPT !.calls = @ \o Tagged(<<Call("embed", FALSE)>>, i + 1)]
            ELSE IF created.raised
            THEN [db |-> created.db,
                  additional_memories |-> acc.additional_memories,
                  calls |-> acc.calls
                            \o Tagged(<<Call("embed", TRUE)>> \o created.calls, i + 1)]
            ELSE [db |-> created.db,
                  additional_memories |-> Append(acc.additional_memories,
                      [memory_id |-> created.memory_id, chunk_index |-> i + 1]),
                  calls |-> acc.calls
                            \o Tagged(<<Call("embed", TRUE)>> \o created.calls, i + 1)]
      IN  ProcessChunks(next, disabled, parsed_content, file_extension, user_id,
                        outcomes, i + 1)

\* the value parse_file and parse_text_input leave when they raise HTTPException
Raised(db, calls, args) ==
    [db |-> db, raised |-> TRUE, memory_id |-> None,
     additional_memories |-> <<>>, calls |-> calls, args |-> args]

\* a parse_file that goes on to the additional chunks after the first chunk failed
ParseFileIgnoringPrimaryFailure(db, disabled, file_extension, text_chunks, user_id, outcomes) ==
    LET parsed_content == ParsePdf(text_chunks)
        created == CreateMemory(db, disabled, parsed_content.text, parsed_content.type,
                                GenerateEmbedding(parsed_content.text), user_id,
                                PrimaryMetadata(file_extension, parsed_content),
                                Get(parsed_content, "tags", <<>>),
                                CreateFaultOf(outcomes[1]))
        first == IF outcomes[1] = "embed"
                 THEN Tagged(<<Call("embed", FALSE)>>, 0)
                 ELSE Tagged(<<Call("embed", TRUE)>> \o created.calls, 0)
        start == IF outcomes[1] = "embed" THEN db ELSE created.db
        done == IF "additional_chunks" \in DOMAIN parsed_content
                THEN ProcessChunks([db |-> start, additional_memories |-> <<>>,
                                    calls |-> first],
                                   disabled, parsed_content, file_extension, user_id,
                                   outcomes, 0)
                ELSE [db |-> start, additional_memories |-> <<>>, calls |-> first]
    IN  [db |-> done.db, raised |-> FALSE,
         memory_id |-> IF outcomes[1] = "embed" THEN None ELSE created.memory_id,
         additional_memories |-> done.additional_memories, calls |-> done.calls,
         args |-> created.args]

\* parse_file, from the parsed content on; outcomes[k]: the fault of chunk k
ParseFile(db, disabled, file_extension, text_chunks, user_id, outcomes) ==
    LET parsed_content == ParsePdf(text_chunks)
        created == CreateMemory(db, disabled, parsed_content.text, parsed_content.type,
                                GenerateEmbedding(parsed_content.text), user_id,
                                PrimaryMetadata(file_extension, parsed_content),
                                Get(parsed_content, "tags", <<>>),
                                CreateFaultOf(outcomes[1]))
        first == Tagged(<<Call("embed", TRUE)>> \o created.calls, 0)
        done == IF "additional_chunks" \in DOMAIN parsed_content
                THEN ProcessChunks([db |-> created.db, additional_memories |-> <<>>,
                                    calls |-> first],
                                   disabled, parsed_content, file_extension, user_id,
                                   outcomes, 0)
                ELSE [db |-> created.db, additional_memories |-> <<>>, calls |-> first]
    IN  IF outcomes[1] = "embed"
        THEN Raised(db, Tagged(<<Call("embed", FALSE)>>, 0), created.args)
        ELSE IF created.raised THEN Raised(created.db, first, created.args)
        ELSE [db |-> done.db, raised |-> FALSE, memory_id |-> created.memory_id,
              additional_memories |-> done.additional_memories, calls |-> done.calls,
              args |-> created.args]

\* parse_text_input
ParseTextInput(db, disabled, text, user_id, fault) ==
    LET created == CreateMemory(db, disabled, text, "text", GenerateEmbedding(text),
                                user_id,
                                [source |-> "direct_input", parser |-> "direct_text"],
                                <<"text", "direct_input">>, CreateFaultOf(fault))
        first == Tagged(<<Call("embed", TRUE)>> \o created.calls, 0)
    IN  IF fault = "embed"
        THEN Raised(db, Tagged(<<Call("embed", FALSE)>>, 0), created.args)
        ELSE IF created.raised THEN Raised(created.db, first, created.args)
        ELSE [db |-> created.db, raised |-> FALSE, memory_id |-> created.memory_id,
              additional_memories |-> <<>>, calls |-> first, args |-> created.args]

-----------------------------------------------------------------------------
(* AIAgentService *)

\* line 19: max_context_memories
MaxContextMemories == 5

\* line 20: similarity_threshold = 0.1, in hundredths
SimilarityThreshold == 10

\* line 213: the length a response has to exceed to be kept as a memory
MinResponseLength == 50

\* lines 276-277: the number of turns a conversation keeps
HistoryLimit == 20

\* a response text, by what the service looks at: len(response) and
\* whether it contains the marker
Response(length, marker) == [length |-> length, marker |-> marker]

\* the texts the language model may answer with
Responses == {Response(50, FALSE), Response(51, FALSE), Response(51, TRUE)}

\* lines 74 and 77-78: the answer of the handler of the outer except
Apology == Response(18, FALSE)

\* the conversation ids a request may carry; "None" is no id
ConversationIds == {"None", "c1"}

\* the seconds of the clock a turn may be saved in
Seconds == {1, 2}

\* f"conv_{datetime.utcnow().strftime('%Y%m%d_%H%M%S')}"
GeneratedId(second) == IF second = 1 THEN "conv_1" ELSE "conv_2"

\* a history that is never cut
AllTurns(turns) == turns

\* lines 276-277: history[-20:] once the history is longer than 20
LastTurns(turns) ==
    IF Len(turns) > HistoryLimit
    THEN SubSeq(turns, Len(turns) - HistoryLimit + 1, Len(turns))
    ELSE turns

\* the key _save_conversation_turn files a turn under
HistoryKey(conversation_id, second) ==
    IF conversation_id = "None" THEN GeneratedId(second) ELSE conversation_id

\* _save_conversation_turn; the timestamp of the turn is left out
SaveConversationTurn(history, user_input, response, conversation_id, second) ==
    LET key == HistoryKey(conversation_id, second)
        old == IF key \in DOMAIN history THEN history[key] ELSE <<>>
        turn == [user_input |-> user_input, response |-> response]
    IN  [k \in DOMAIN history \cup {key} |->
            IF k = key THEN LastTurns(Append(old, turn)) ELSE history[k]]

\* clear_conversation_history; "None": every conversation
ClearConversationHistory(history, conversation_id) ==
    IF conversation_id = "None" THEN <<>>
    ELSE [k \in DOMAIN history \ {conversation_id} |-> history[k]]

\* a policy that keeps every response
AlwaysCreateMemory(response) == TRUE

\* _should_create_memory
ShouldCreateMemory(response) ==
    response.length > MinResponseLength /\ ~response.marker

\* what may fail while the memories are retrieved
RetrievalFaults == {"none", "embed", "search"}

\* _retrieve_relevant_memories: its except returns []
RetrieveRelevantMemories(db, disabled, query_embedding, user_id, fault) ==
    IF fault # "none" THEN [raised |-> FALSE, memories |-> <<>>]
    ELSE [raised |-> FALSE,
          memories |-> SemanticSearch(db, disabled, query_embedding, user_id,
                                      MaxContextMemories, SimilarityThreshold, {})]

\* f"用户: {user_input}\n助手: {response}"
ConversationText(user_input, response) == <<"user", user_input, "assistant", response>>

\* the embedding of a conversation text
ConversationEmbedding(conversation_text) == <<3, 4>>

\* the arguments _create_conversation_memory gives create_memory
ConversationMemory(db, disabled, user_input, response, user_id, conversation_id, fault) ==
    CreateMemory(db, disabled, ConversationText(user_input, response), "conversation",
                 ConversationEmbedding(ConversationText(user_input, response)), user_id,
                 [conversation_id |-> conversation_id, user_input |-> user_input,
                  ai_response |-> response, source |-> "ai_agent"],
                 <<"conversation", "ai_chat">>, CreateFaultOf(fault))

\* a _create_conversation_memory without its try: a failure leaves it
CreateConversationMemoryRaising(db, disabled, user_input, response, user_id, conversation_id, fault) ==
    LET created == ConversationMemory(db, disabled, user_input, response, user_id,
                                      conversation_id, fault)
    IN  IF fault = "embed"
        THEN [db |-> db, raised |-> TRUE, memory_id |-> None,
              calls |-> <<Call("embed", FALSE)>>]
        ELSE [db |-> created.db, raised |-> created.raised,
              memory_id |-> created.memory_id,
              calls |-> <<Call("embed", TRUE)>> \o created.calls]

\* _create_conversation_memory: its except returns None
CreateConversationMemory(db, disabled, user_input, response, user_id, conversation_id, fault) ==
    LET created == ConversationMemory(db, disabled, user_input, response, user_id,
                                      conversation_id, fault)
    IN  IF fault = "embed"
        THEN [db |-> db, raised |-> FALSE, memory_id |-> None,
              calls |-> <<Call("embed", FALSE)>>]
        ELSE [db |-> created.db, raised |-> FALSE,
              memory_id |-> created.memory_id,
              calls |-> <<Call("embed", TRUE)>> \o created.calls]

\* lines 71-80: the outer except of chat_with_memory answers with an apology
ChatFailed(db, history, calls) ==
    [db |-> db, conversation_history |-> history, response |-> Apology,
     relevant_memories |-> <<>>, context_used |-> 0, error |-> TRUE,
     attempted |-> calls # <<>>, memory_id |-> None, calls |-> calls]

\* chat_with_memory; response: the text _generate_response comes back with
ChatWithMemory(db, disabled, history, user_input, user_id, conversation_id, use_memory, query_embedding, retrieval_fault, response, second, ingest_fault) ==
    LET retrieved == IF use_memory
                     THEN RetrieveRelevantMemories(db, disabled, query_embedding,
                                                   user_id, retrieval_fault)
                     ELSE [raised |-> FALSE, memories |-> <<>>]
        saved == SaveConversationTurn(history, user_input, response,
                                      conversation_id, second)
        created == IF ShouldCreateMemory(response)
                   THEN CreateConversationMemory(db, disabled, user_input, response,
                                                 user_id, conversation_id, ingest_fault)
                   ELSE [db |-> db, raised |-> FALSE, memory_id |-> None,
                         calls |-> <<>>]
    IN  IF retrieved.raised THEN ChatFailed(db, history, <<>>)
        ELSE IF created.raised THEN ChatFailed(created.db, saved, created.calls)
        ELSE [db |-> created.db, conversation_history |-> saved,
              response |-> response, relevant_memories |-> retrieved.memories,
              context_used |-> Len(retrieved.memories), error |-> FALSE,
              attempted |-> created.calls # <<>>, memory_id |-> created.memory_id,
              calls |-> created.calls]

-----------------------------------------------------------------------------
(* The service as a state machine *)

\* no request is being answered: the event loop waits for the next one
Idle == [op |-> "idle"]

\* a service whose handlers run on threads: one may start while another runs
HandlersOnThreads == TRUE

\* the event loop is free to start a handler: every route is an async def
\* that runs the service call without an await, on the one loop of uvicorn.run,
\* so a handler starts only when no other is running
LoopFree == last = Idle /\ scan = None

\* DatabaseService.__init__ on an empty store, where the tables may be
\* denied, and AIAgentService.__init__
Init ==
    /\ memories = <<>>
    /\ embeddings = <<>>
    /\ vector_store = <<>>
    /\ dynamodb_disabled \in BOOLEAN
    /\ uuid_count = 0
    /\ last = Idle
    /\ scan = None
    /\ conversation_history = <<>>

SetDb(db) ==
    /\ memories' = db.memories
    /\ embeddings' = db.embeddings
    /\ vector_store' = db.vector_store
    /\ uuid_count' = db.uuid_count

\* the faults a request may meet: with DynamoDB disabled no put_item is made
FaultsNow == IF dynamodb_disabled THEN {"none", "embed"} ELSE ChunkFaults

\* POST /api/upload/text
UploadText ==
    /\ LoopFree
    /\ uuid_count < MaxIds
    /\ \E text \in Texts, user_id \in Users, fault \in FaultsNow :
      \E r \in {ParseTextInput(Db, dynamodb_disabled, text, user_id, fault)} :
        /\ SetDb(r.db)
        /\ last' = [op |-> "parse_text_input", user_id |-> user_id,
                    text_chunks |-> <<text>>, outcomes |-> <<fault>>,
                    raised |-> r.raised, memory_id |-> r.memory_id,
                    additional_memories |-> r.additional_memories,
                    calls |-> r.calls, args |-> r.args]
        /\ UNCHANGED <<dynamodb_disabled, scan, conversation_history>>

\* the chunk lists a document of n chunks may be split into: its chunks
\* alternate between the two texts
ChunkLists(n) == {[k \in 1..n |-> IF k % 2 = 1 THEN "b" ELSE "a"]}

\* the faults of the n chunks of one upload; the chunks after a failed first
\* chunk are not reached, so their faults are left at "none"
Outcomes(n) ==
    {o \in [1..n -> FaultsNow] : o[1] # "none" => \A k \in 2..n : o[k] = "none"}

\* POST /api/upload with parse_and_store, for a PDF file
UploadFile ==
    /\ LoopFree
    /\ uuid_count < MaxIds
    /\ \E n \in 1..MaxChunks, user_id \in Users :
      \E text_chunks \in ChunkLists(n), outcomes \in Outcomes(n) :
        \E r \in {ParseFile(Db, dynamodb_disabled, "pdf", text_chunks, user_id, outcomes)} :
          /\ r.db.uuid_count <= MaxIds
          /\ SetDb(r.db)
          /\ last' = [op |-> "parse_file", user_id |-> user_id,
                      text_chunks |-> text_chunks, outcomes |-> outcomes,
                      raised |-> r.raised, memory_id |-> r.memory_id,
                      additional_memories |-> r.additional_memories,
                      calls |-> r.calls, args |-> r.args]
          /\ UNCHANGED <<dynamodb_disabled, scan, conversation_history>>

\* the ids a by-id request may name
RequestIds == {Uuid(n) : n \in 1..uuid_count} \cup {StrangerId}

\* DELETE /api/search/memories/{memory_id}; the route takes the id alone, so
\* whoever sends the request (caller) is not known to the handler
Delete ==
    /\ LoopFree
    /\ \E memory_id \in RequestIds, caller \in Users, fault \in DeleteFaults :
        \E r \in {DeleteMemory(Db, dynamodb_disabled, memory_id, fault)} :
            /\ SetDb(r.db)
            /\ last' = [op |-> "delete_memory", memory_id |-> memory_id,
                        caller |-> caller,
                        owner |-> IF memory_id \in DOMAIN memories
                                  THEN Get(memories[memory_id], "user_id", "None")
                                  ELSE "None",
                        fault |-> fault, success |-> r.success,
                        existed |-> memory_id \in DOMAIN memories,
                        cached |-> memory_id \in CacheIds(vector_store),
                        cache_owner |-> CacheOwner(vector_store, memory_id)]
            /\ UNCHANGED <<dynamodb_disabled, scan, conversation_history>>

\* GET /api/search/memories/{memory_id}; the route takes the id alone
GetMemory ==
    /\ LoopFree
    /\ \E memory_id \in RequestIds, caller \in Users, read_fails \in BOOLEAN :
        /\ last' = [op |-> "get_memory_by_id", memory_id |-> memory_id,
                    caller |-> caller,
                    memory |-> GetMemoryById(Db, dynamodb_disabled, memory_id, read_fails)]
        /\ UNCHANGED <<memories, embeddings, vector_store, dynamodb_disabled, uuid_count, scan,
                   conversation_history>>

\* POST /api/search/semantic, from the query embedding on
Search ==
    /\ LoopFree
    /\ \E user_id \in Users :
      \E unreadable \in SUBSET CacheIds(vector_store) :
      \E results \in {SemanticSearch(Db, dynamodb_disabled, query_embedding,
                                     user_id, limit, threshold, unreadable) :
                          query_embedding \in Vectors, limit \in Limits,
                          threshold \in Thresholds} :
        /\ last' = [op |-> "semantic_search", user_id |-> user_id,
                    results |-> results]
        /\ UNCHANGED <<memories, embeddings, vector_store, dynamodb_disabled, uuid_count, scan,
                   conversation_history>>

\* what one turn of the loop of semantic_search appends for entry i
ScanEntry(db, disabled, query_vector, user_id, threshold, i) ==
    ScanStore([db EXCEPT !.vector_store = <<db.vector_store[i]>>], disabled,
              query_vector, user_id, threshold, {}, 1)

\* semantic_search is entered: the iterator over vector_store.items() is made
SearchStart ==
    /\ LoopFree
    /\ \E query_embedding \in Vectors, user_id \in Users, limit \in Limits,
          threshold \in Thresholds :
        scan' = [query_embedding |-> query_embedding, user_id |-> user_id,
                 limit |-> limit, threshold |-> threshold,
                 size |-> Len(vector_store), i |-> 1, results |-> <<>>]
    /\ UNCHANGED <<memories, embeddings, vector_store, dynamodb_disabled,
                   uuid_count, last, conversation_history>>

\* one turn of the loop of semantic_search; the iterator of a dict whose size
\* has changed since it was made raises RuntimeError, which the route answers
\* with status 500
ScanStep ==
    /\ scan # None
    /\ scan.i <= scan.size
    /\ IF Len(vector_store) # scan.size
       THEN /\ scan' = None
            /\ last' = [op |-> "semantic_search", user_id |-> scan.user_id,
                        results |-> <<>>, raised |-> TRUE]
       ELSE /\ scan' = [scan EXCEPT
                          !.i = @ + 1,
                          !.results = @ \o ScanEntry(Db, dynamodb_disabled,
                                                     scan.query_embedding,
                                                     scan.user_id,
                                                     scan.threshold, scan.i)]
            /\ UNCHANGED last
    /\ UNCHANGED <<memories, embeddings, vector_store, dynamodb_disabled, uuid_count,
                   conversation_history>>

\* the loop of semantic_search is over: the results are sorted, cut and returned
SearchEnd ==
    /\ scan # None
    /\ scan.i > scan.size
    /\ last' = [op |-> "semantic_search", user_id |-> scan.user_id,
                results |-> Truncate(SortDesc(scan.results), scan.limit)]
    /\ scan' = None
    /\ UNCHANGED <<memories, embeddings, vector_store, dynamodb_disabled, uuid_count,
                   conversation_history>>

\* limit and offset values of a listing
PageLimits == {1, 2}
PageOffsets == {0, 1}

\* GET /api/search/memories
ListMemories ==
    /\ LoopFree
    /\ \E user_id \in Users, limit \in PageLimits, offset \in PageOffsets,
          memory_type \in {"None", "text"}, order \in ScanOrders(memories),
          read_fails \in BOOLEAN :
        last' = [op |-> "get_memories", user_id |-> user_id, limit |-> limit,
                 offset |-> offset, memory_type |-> memory_type,
                 read_fails |-> read_fails,
                 memories |-> GetMemories(Db, dynamodb_disabled, user_id, limit,
                                          offset, memory_type, order, read_fails)]
    /\ UNCHANGED <<memories, embeddings, vector_store, dynamodb_disabled,
                   uuid_count, scan, conversation_history>>

\* the body of POST /api/search/memories/{memory_id}/related: the status of
\* the response and the related memories in it
GetRelatedResponse(db, disabled, memory_id, user_id, limit, read_fails) ==
    LET memory == GetMemoryById(db, disabled, memory_id, read_fails)
        called == GetRelatedMemories(db, disabled, memory_id, limit,
                                     {"memory_id", "user_id", "limit"})
    IN  IF memory = None THEN [status |-> 404, related_memories |-> <<>>]
        ELSE IF Get(memory, "user_id", "None") # user_id
        THEN [status |-> 403, related_memories |-> <<>>]
        ELSE IF called.raised THEN [status |-> 500, related_memories |-> <<>>]
        ELSE [status |-> 200, related_memories |-> called.related]

\* POST /api/search/memories/{memory_id}/related
GetRelated ==
    /\ LoopFree
    /\ \E memory_id \in RequestIds, user_id \in Users, limit \in Limits,
          read_fails \in BOOLEAN :
        \E r \in {GetRelatedResponse(Db, dynamodb_disabled, memory_id, user_id,
                                     limit, read_fails)} :
          last' = [op |-> "get_related_memories", memory_id |-> memory_id,
                   user_id |-> user_id, limit |-> limit, status |-> r.status,
                   related_memories |-> r.related_memories]
    /\ UNCHANGED <<memories, embeddings, vector_store, dynamodb_disabled, uuid_count, scan,
                   conversation_history>>

\* the process is started again: DatabaseService.__init__ runs
\* _load_vectors_to_memory on an empty vector_store; the tables keep their items,
\* and the access rights to the tables are those of the first start; the new
\* AIAgentService starts without conversations
Restart ==
    /\ LoopFree
    /\ \E order \in ScanOrders(embeddings), bad \in BadRecords(embeddings) :
      \E page \in PageSizes(order) :
        /\ vector_store' = IF dynamodb_disabled THEN <<>>
                           ELSE LoadVectors(<<>>, embeddings,
                                            ScanItems(order, page), bad)
        /\ last' = [op |-> "load_vectors", complete |-> page = Len(order),
                    bad |-> bad]
        /\ conversation_history' = <<>>
        /\ UNCHANGED <<memories, embeddings, dynamodb_disabled, uuid_count, scan>>

\* the number of the message a client sends next in a conversation: the
\* clients number their messages
NextMessage(history, key) ==
    IF key \in DOMAIN history /\ history[key] # <<>>
    THEN history[key][Len(history[key])].user_input + 1
    ELSE 1

\* POST /api/agent/chat, for the requests and the answers of the language
\* model given; retrieval and ingestion meet the faults of the moment
ChatTurn(use_memory_choices, responses, conversation_ids, seconds, messages) ==
    /\ LoopFree
    /\ \E user_id \in Users, conversation_id \in conversation_ids, second \in seconds,
          response \in responses, use_memory \in use_memory_choices :
      \E query_embedding \in IF use_memory THEN Vectors ELSE {None},
         retrieval_fault \in IF use_memory THEN RetrievalFaults ELSE {"none"},
         ingest_fault \in IF ShouldCreateMemory(response) THEN FaultsNow ELSE {"none"},
         answered \in {s \in seconds : s >= second} :
        LET key == HistoryKey(conversation_id, second)
            user_input == NextMessage(conversation_history, key)
            r == ChatWithMemory(Db, dynamodb_disabled, conversation_history, user_input,
                                user_id, conversation_id, use_memory, query_embedding,
                                retrieval_fault, response, second, ingest_fault)
        IN  /\ user_input <= messages
            /\ ShouldCreateMemory(response) => uuid_count < MaxIds
            /\ SetDb(r.db)
            /\ conversation_history' = r.conversation_history
            /\ last' = [op |-> "chat_with_memory", user_id |-> user_id,
                        user_input |-> user_input, key |-> key,
                        use_memory |-> use_memory, retrieval_fault |-> retrieval_fault,
                        ingest_fault |-> ingest_fault, generated |-> response,
                        raised |-> FALSE, response |-> r.response,
                        conversation_id |-> HistoryKey(conversation_id, answered),
                        relevant_memories |-> r.relevant_memories,
                        context_used |-> r.context_used, error |-> r.error,
                        attempted |-> r.attempted, memory_id |-> r.memory_id,
                        calls |-> r.calls]
            /\ UNCHANGED <<dynamodb_disabled, scan>>

\* a chat of a client that names no conversation, with or without memories
Chat == ChatTurn(BOOLEAN, Responses, {"None"}, {1}, MaxChats)

\* a chat of a client that asks for no memories and is answered briefly
ChatWithoutMemory ==
    ChatTurn({FALSE}, {Response(50, FALSE)}, ConversationIds, Seconds, MaxTurns)

\* DELETE /api/agent/conversations/{conversation_id} and
\* DELETE /api/agent/conversations
ClearConversation ==
    /\ LoopFree
    /\ \E conversation_id \in {"None", "c1", "conv_1"} :
        /\ conversation_history' =
               ClearConversationHistory(conversation_history, conversation_id)
        /\ last' = [op |-> "clear_conversation_history",
                    conversation_id |-> conversation_id]
    /\ UNCHANGED <<memories, embeddings, vector_store, dynamodb_disabled, uuid_count, scan>>

\* the response of the handler is sent; the event loop takes the next request
Respond ==
    /\ last # Idle
    /\ last' = Idle
    /\ UNCHANGED <<memories, embeddings, vector_store, dynamodb_disabled, uuid_count, scan,
                   conversation_history>>

\* every request, in any order
Next ==
    \/ UploadText \/ UploadFile \/ Delete \/ GetMemory \/ Search \/ GetRelated
    \/ SearchStart \/ ScanStep \/ SearchEnd \/ Restart \/ Respond

Spec == Init /\ [][Next]_vars

\* related-memory requests on a store filled by text uploads
NextRelated == UploadText \/ Delete \/ GetRelated \/ Restart \/ Respond

SpecRelated == Init /\ [][NextRelated]_vars

\* the store and the cache under text uploads, deletes, reads and restarts
NextStore == UploadText \/ Delete \/ GetMemory \/ Search \/ Restart \/ Respond

SpecStore == Init /\ [][NextStore]_vars

\* searches taken one turn of their loop at a time, among text uploads,
\* deletes and restarts
NextLoop ==
    \/ UploadText \/ Delete \/ Restart \/ SearchStart \/ ScanStep \/ SearchEnd
    \/ Respond

SpecLoop == Init /\ [][NextLoop]_vars

\* listings of a store filled by text uploads
NextList == UploadText \/ Delete \/ ListMemories \/ Respond

SpecList == Init /\ [][NextList]_vars

\* ingestion alone: text uploads and file uploads
NextIngest == UploadText \/ UploadFile \/ Respond

SpecIngest == Init /\ [][NextIngest]_vars

\* chats that keep their turns as memories, found again after a restart
NextChat == Chat \/ Restart \/ Respond

SpecChat == Init /\ [][NextChat]_vars

\* the conversations of clients that chat and clear their histories
NextHistory == ChatWithoutMemory \/ ClearConversation \/ Respond

SpecHistory == Init /\ [][NextHistory]_vars

\* _parse_pdf has extracted a text from the pages of an uploaded PDF; the
\* store is as DatabaseService.__init__ leaves it
InitChunk ==
    /\ memories = <<>>
    /\ embeddings = <<>>
    /\ vector_store = <<>>
    /\ dynamodb_disabled = FALSE
    /\ uuid_count = 0
    /\ scan = None
    /\ conversation_history = <<>>
    /\ \E text \in TextsUpTo(MaxTextLen), max_tokens \in Budgets :
          last = [op |-> "extract_text", text |-> text, max_tokens |-> max_tokens]

\* _parse_pdf strips the extracted text and hands it to _split_text_into_chunks
SplitText ==
    /\ last.op = "extract_text"
    /\ last' = [op |-> "split_text_into_chunks", extracted |-> last.text,
                text |-> Strip(last.text), max_tokens |-> last.max_tokens,
                text_chunks |-> SplitTextIntoChunks(Strip(last.text),
                                                    last.max_tokens)]
    /\ UNCHANGED <<memories, embeddings, vector_store, dynamodb_disabled,
                   uuid_count, scan, conversation_history>>

\* the chunking of the texts a PDF may hold
NextChunk == SplitText

SpecChunk == InitChunk /\ [][NextChunk]_vars

\* the vectors with whole components and a whole norm of at most 5, the
\* all-zero vector among them
NormedVectors ==
    {v \in (-5..5) \X (-5..5) : \E n \in 0..5 : n * n = Dot(v, v)}

\* a caller of utils.memory_utils holds two embeddings
InitSimilarity ==
    /\ memories = <<>>
    /\ embeddings = <<>>
    /\ vector_store = <<>>
    /\ dynamodb_disabled = FALSE
    /\ uuid_count = 0
    /\ scan = None
    /\ conversation_history = <<>>
    /\ \E embedding1 \in NormedVectors, embedding2 \in NormedVectors :
          last = [op |-> "embeddings", embedding1 |-> embedding1,
                  embedding2 |-> embedding2]

\* calculate_similarity(embedding1, embedding2)
CalculateSimilarity ==
    /\ last.op = "embeddings"
    /\ last' = [op |-> "calculate_similarity", embedding1 |-> last.embedding1,
                embedding2 |-> last.embedding2,
                similarity |-> CosineSimilarity(last.embedding1, last.embedding2)]
    /\ UNCHANGED <<memories, embeddings, vector_store, dynamodb_disabled,
                   uuid_count, scan, conversation_history>>

NextSimilarity == CalculateSimilarity

SpecSimilarity == InitSimilarity /\ [][NextSimilarity]_vars

-----------------------------------------------------------------------------
(* Properties *)

\* every search a caller may make in the current state
SearchNow(query_embedding, user_id, limit, threshold) ==
    SemanticSearch(Db, dynamodb_disabled, query_embedding, user_id, limit, threshold, {})

ResultIds(results) == {results[i].memory.id : i \in DOMAIN results}

IsUpload(l) == l.op \in {"parse_text_input", "parse_file"}

\* the vector_store entry of an id, or None
CacheEntryOf(memory_id) ==
    IF memory_id \in CacheIds(vector_store)
    THEN vector_store[CHOOSE i \in DOMAIN vector_store :
                          vector_store[i].memory_id = memory_id]
    ELSE None

\* C1: whatever the store and the cache hold when a request arrives, a search
\* by one owner, with any query vector, limit and threshold, returns only
\* memories of that owner; so does every list a search request returned
SearchOwnerIsolation ==
    /\ last = Idle =>
          \A q \in Vectors, u \in Users, limit \in Limits, threshold \in Thresholds :
            LET results == SearchNow(q, u, limit, threshold)
            IN  \A i \in DOMAIN results : results[i].memory.user_id = u
    /\ last.op = "semantic_search" =>
          \A i \in DOMAIN last.results : last.results[i].memory.user_id = last.user_id

\* C1 witness: a search returned memories of its owner while the cache held a
\* vector of another owner that is closer to the query than all it returned
SearchPassedOverCloserVector ==
    /\ last.op = "semantic_search"
    /\ last.results # <<>>
    /\ \E q \in Vectors, limit \in Limits, threshold \in Thresholds :
          /\ last.results = SearchNow(q, last.user_id, limit, threshold)
          /\ \E i \in DOMAIN vector_store :
                /\ Get(vector_store[i], "user_id", "None") \in Users \ {last.user_id}
                /\ vector_store[i].memory_id \in DOMAIN memories
                /\ AtLeast(CosineSimilarity(q, vector_store[i].embedding), threshold)
                /\ \A j \in DOMAIN last.results :
                      CosineSimilarity(q, vector_store[i].embedding).value
                          > last.results[j].similarity_score

\* C2: right after an upload succeeded for an owner, the vector_store holds an
\* entry with the new id, that owner and the vector, and a search by the owner
\* with that vector as query and a threshold it meets returns the new memory
IngestThenSearchVisible ==
    (IsUpload(last) /\ ~last.raised /\ last.memory_id # None) =>
        /\ CacheEntryOf(last.memory_id) # None
        /\ CacheOwner(vector_store, last.memory_id) = last.user_id
        /\ CacheEntryOf(last.memory_id).embedding = GenerateEmbedding(last.args.content)
        /\ \A threshold \in {t \in Thresholds : t <= 100} :
              last.memory_id \in
                  ResultIds(SearchNow(GenerateEmbedding(last.args.content),
                                      last.user_id, MaxIds + 1, threshold))

\* the id has been drawn by uuid4(), or is one that never will be
Drawn(memory_id) == memory_id = StrangerId \/ memory_id[2] <= uuid_count

\* no memory record, no vector record and no cache entry of the id is left
Absent(memory_id) ==
    /\ memory_id \notin DOMAIN memories
    /\ memory_id \notin DOMAIN embeddings
    /\ memory_id \notin CacheIds(vector_store)

\* get_memory_by_id returns None for the id and no search returns it
Invisible(memory_id) ==
    /\ GetMemoryById(Db, dynamodb_disabled, memory_id, FALSE) = None
    /\ \A q \in Vectors, u \in Users, limit \in Limits, threshold \in Thresholds :
          memory_id \notin ResultIds(SearchNow(q, u, limit, threshold))

\* C3: when delete_memory(id) returns True no record, vector or cache entry
\* of the id is left; an id of which nothing is left is returned by no lookup
\* and no search a later request can make, and stays so under every later
\* request (searches and restarts included)
DeletionComplete ==
    /\ [](last = Idle =>
             \A memory_id \in AllIds \cup {StrangerId} :
                 Absent(memory_id) => Invisible(memory_id))
    /\ [][\A memory_id \in AllIds \cup {StrangerId} :
            /\ (/\ last'.op = "delete_memory"
                /\ last'.success
                /\ last'.memory_id = memory_id) => Absent(memory_id)'
            /\ (Drawn(memory_id) /\ Absent(memory_id)) => Absent(memory_id)']_vars

\* C3 witness: a delete returned True for a memory that had a record and a
\* cache entry its owner's searches could reach, while another memory of
\* that owner is still cached
DeletedASearchableMemory ==
    /\ last.op = "delete_memory"
    /\ last.success /\ last.existed /\ last.cached
    /\ last.cache_owner \in Users
    /\ \E i \in DOMAIN vector_store :
          Get(vector_store[i], "user_id", "None") = last.cache_owner

\* the positions in a call log of the calls of one kind for one chunk
CallsOf(calls, name, chunk) ==
    {j \in DOMAIN calls : calls[j].call = name /\ calls[j].chunk = chunk}

\* C4: an upload changes the vector_store only by adding entries, each for an
\* id whose memory record and vector record were both written just before, in
\* that order; a create_memory whose put_item raised adds no entry
CacheAfterDurable ==
    [][IsUpload(last') =>
         /\ Len(vector_store') >= Len(vector_store)
         /\ SubSeq(vector_store', 1, Len(vector_store)) = vector_store
         /\ \A memory_id \in CacheIds(vector_store') \ CacheIds(vector_store) :
               memory_id \in DOMAIN memories' /\ memory_id \in DOMAIN embeddings'
         /\ \A j \in DOMAIN last'.calls :
               last'.calls[j].call = "cache_insert" =>
                 /\ j > 2
                 /\ last'.calls[j - 2] =
                        [call |-> "put_memory", ok |-> TRUE, chunk |-> last'.calls[j].chunk]
                 /\ last'.calls[j - 1] =
                        [call |-> "put_vector", ok |-> TRUE, chunk |-> last'.calls[j].chunk]
         /\ Len(vector_store') - Len(vector_store) =
               Cardinality({j \in DOMAIN last'.calls : last'.calls[j].call = "cache_insert"})
         /\ \A j \in DOMAIN last'.calls :
               (last'.calls[j].call \in {"put_memory", "put_vector"} /\ ~last'.calls[j].ok)
                 => CallsOf(last'.calls, "cache_insert", last'.calls[j].chunk) = {}]_vars

\* C4 witness: an upload cached its first chunk and met a failing put_item
\* on a later chunk
CachedOneChunkFailedAnother ==
    /\ last.op = "parse_file"
    /\ ~last.raised
    /\ last.memory_id \in CacheIds(vector_store)
    /\ \E k \in DOMAIN last.outcomes : last.outcomes[k] \in {"put_memory", "put_vector"}

\* C5: when the embedding request or a put_item of the first chunk fails, the
\* upload raises, nothing is requested for a later chunk, and nothing but the
\* first chunk's own record is written
PrimaryFailureAborts ==
    [][(IsUpload(last') /\ last'.outcomes[1] # "none") =>
         /\ last'.raised
         /\ last'.memory_id = None
         /\ last'.additional_memories = <<>>
         /\ \A j \in DOMAIN last'.calls : last'.calls[j].chunk = 0
         /\ embeddings' = embeddings
         /\ vector_store' = vector_store
         /\ uuid_count' <= uuid_count + 1
         /\ DOMAIN memories' \subseteq (DOMAIN memories) \cup {Uuid(uuid_count + 1)}
         /\ \A memory_id \in DOMAIN memories : memories'[memory_id] = memories[memory_id]
         /\ \A memory_id \in DOMAIN memories' \ DOMAIN memories :
               memories'[memory_id].content = last'.text_chunks[1]]_vars

\* C5 witness: a document of several chunks whose first chunk failed
FirstChunkOfManyFailed ==
    /\ last.op = "parse_file"
    /\ Len(last.text_chunks) > 1
    /\ last.outcomes[1] # "none"
    /\ last.raised

\* the additional chunks of the last upload that did not fail
ChunksDone(l) == {k \in 1..(Len(l.text_chunks) - 1) : l.outcomes[k + 1] = "none"}

\* C6: when the first chunk succeeds, parse_file returns success whatever
\* happens to the later chunks; an embedding is requested for every later
\* chunk, and additional_memories lists, in order, exactly the chunks that did
\* not fail, each with the id of the memory that holds that chunk
SecondaryFailureIsolated ==
    (last.op = "parse_file" /\ last.outcomes[1] = "none") =>
        /\ ~last.raised
        /\ ~dynamodb_disabled =>
              /\ last.memory_id \in DOMAIN memories
              /\ memories[last.memory_id].content = last.text_chunks[1]
        /\ \A k \in 1..(Len(last.text_chunks) - 1) :
              CallsOf(last.calls, "embed", k) # {}
        /\ Len(last.additional_memories) = Cardinality(ChunksDone(last))
        /\ {last.additional_memories[j].chunk_index :
                j \in DOMAIN last.additional_memories} = ChunksDone(last)
        /\ \A i, j \in DOMAIN last.additional_memories :
              i < j => last.additional_memories[i].chunk_index
                          < last.additional_memories[j].chunk_index
        /\ ~dynamodb_disabled =>
              \A j \in DOMAIN last.additional_memories :
                LET a == last.additional_memories[j]
                IN  /\ a.memory_id \in DOMAIN memories
                    /\ a.memory_id # last.memory_id
                    /\ memories[a.memory_id].content = last.text_chunks[a.chunk_index + 1]
                    /\ memories[a.memory_id].user_id = last.user_id
                    /\ \A i \in DOMAIN last.additional_memories :
                          i # j => last.additional_memories[i].memory_id # a.memory_id

\* C6 witness: of three chunks the second failed and the third was stored
SkippedOneChunkStoredTheNext ==
    /\ last.op = "parse_file"
    /\ Len(last.text_chunks) = 3
    /\ last.outcomes[1] = "none" /\ last.outcomes[2] # "none" /\ last.outcomes[3] = "none"
    /\ ~last.raised
    /\ Len(last.additional_memories) = 1
    /\ last.additional_memories[1].chunk_index = 2
    /\ last.additional_memories[1].memory_id \in DOMAIN memories

\* C7: while DynamoDB is available every memory record has the vector record
\* of the same id and owner
RecordVectorPairing ==
    ~dynamodb_disabled =>
        \A memory_id \in DOMAIN memories :
            /\ memory_id \in DOMAIN embeddings
            /\ embeddings[memory_id].user_id = memories[memory_id].user_id

\* C8: after delete_memory(id) has returned, True or False, it is never the
\* case that the memory record is gone while the vector record or the
\* vector_store entry of the id is still there
NoPartialDeletion ==
    last.op = "delete_memory" =>
        ~ /\ last.memory_id \notin DOMAIN memories
          /\ \/ last.memory_id \in DOMAIN embeddings
             \/ last.memory_id \in CacheIds(vector_store)

\* the ids of the memories the last upload reports, first chunk first
ReportedIds(l) ==
    <<l.memory_id>> \o [j \in DOMAIN l.additional_memories |->
                            l.additional_memories[j].memory_id]

\* C9: when a document of N > 1 chunks is stored without a failure, the N
\* memories of the upload belong to the owner, each has total_chunks = N, and
\* the k-th of them has chunk_index = k - 1
ChunkMetadataCorrect ==
    (/\ last.op = "parse_file"
     /\ Len(last.text_chunks) > 1
     /\ ~dynamodb_disabled
     /\ \A k \in DOMAIN last.outcomes : last.outcomes[k] = "none") =>
        /\ Len(ReportedIds(last)) = Len(last.text_chunks)
        /\ \A k \in DOMAIN ReportedIds(last) :
              LET m == GetMemoryById(Db, dynamodb_disabled, ReportedIds(last)[k], FALSE)
              IN  /\ m # None
                  /\ m.user_id = last.user_id
                  /\ Get(m.metadata, "total_chunks", 0) = Len(last.text_chunks)
                  /\ Get(m.metadata, "chunk_index", -1) = k - 1

\* C10: right after a create_memory that returned an id, get_memory_by_id of
\* that id returns a record with the content, memory_type, tags and user_id
\* that were passed to create_memory
CreateGetRoundTrip ==
    (IsUpload(last) /\ ~last.raised /\ last.memory_id # None) =>
        LET m == GetMemoryById(Db, dynamodb_disabled, last.memory_id, FALSE)
        IN  /\ m # None
            /\ m.content = last.args.content
            /\ m.memory_type = last.args.memory_type
            /\ m.tags = last.args.tags
            /\ m.user_id = last.args.user_id
            /\ last.args.content = last.text_chunks[1]
            /\ last.args.user_id = last.user_id

\* C10 witness: an upload has just created a memory with tags
CreatedAMemoryWithTags ==
    /\ IsUpload(last)
    /\ ~last.raised
    /\ last.memory_id \in DOMAIN memories
    /\ last.args.tags # <<>>

\* the vector_store entries a search of the user has to consider: the entry
\* and its memory record are the user's and the similarity meets the threshold
Qualifying(q, u, threshold) ==
    {i \in DOMAIN vector_store :
        /\ Get(vector_store[i], "user_id", "None") = u
        /\ vector_store[i].memory_id \in DOMAIN memories
        /\ memories[vector_store[i].memory_id].user_id = u
        /\ ~CosineSimilarity(q, vector_store[i].embedding).nan
        /\ CosineSimilarity(q, vector_store[i].embedding).value >= threshold}

NonIncreasing(results) ==
    \A i \in 1..(Len(results) - 1) :
        results[i].similarity_score >= results[i + 1].similarity_score

\* C11: between requests, for every query vector, user, limit and threshold,
\* the list semantic_search returns is ordered by similarity_score
\* non-increasing, holds min(limit, number of qualifying entries) distinct
\* qualifying entries with their scores, and no qualifying entry it leaves
\* out scores higher than one it returns; every list a search request
\* returned is ordered non-increasing
SearchRanking ==
    /\ last = Idle =>
          \A q \in Vectors, u \in Users, limit \in Limits, threshold \in Thresholds :
            LET results == SearchNow(q, u, limit, threshold)
                Q == Qualifying(q, u, threshold)
                Score(j) == CosineSimilarity(q, vector_store[j].embedding).value
            IN  /\ NonIncreasing(results)
                /\ Len(results) <= limit
                /\ Len(results) = IF Cardinality(Q) < limit THEN Cardinality(Q) ELSE limit
                /\ Cardinality(ResultIds(results)) = Len(results)
                /\ \A i \in DOMAIN results :
                      \E j \in Q : /\ vector_store[j].memory_id = results[i].memory.id
                                   /\ Score(j) = results[i].similarity_score
                                   /\ results[i].memory = memories[vector_store[j].memory_id]
                /\ \A j \in Q :
                      vector_store[j].memory_id \notin ResultIds(results) =>
                          \A i \in DOMAIN results :
                              results[i].similarity_score >= Score(j)
    /\ last.op = "semantic_search" => NonIncreasing(last.results)

\* C11 witness: a search with limit 1 returned the better of two qualifying
\* entries of its user, which is the later of the two in the vector_store
ReturnedTheBetterLaterEntry ==
    /\ last.op = "semantic_search"
    /\ Len(last.results) = 1
    /\ \E q \in Vectors, threshold \in Thresholds :
          /\ last.results = SearchNow(q, last.user_id, 1, threshold)
          /\ \E i, j \in Qualifying(q, last.user_id, threshold) :
                /\ i < j
                /\ vector_store[j].memory_id = last.results[1].memory.id
                /\ CosineSimilarity(q, vector_store[i].embedding).value
                      < last.results[1].similarity_score

\* C12: between requests, for every query vector, user, limit and threshold,
\* every result of semantic_search has similarity_score >= threshold, and a
\* threshold above 1 (100 hundredths) gives the empty list
ThresholdFilter ==
    last = Idle =>
        \A q \in Vectors, u \in Users, limit \in Limits, threshold \in Thresholds :
          LET results == SearchNow(q, u, limit, threshold)
          IN  /\ \A i \in DOMAIN results : results[i].similarity_score >= threshold
              /\ threshold > 100 => results = <<>>

\* C12 witness: a search returned fewer results than its limit because an
\* entry of its user with a memory record scored below the threshold
LeftOutBelowThreshold ==
    /\ last.op = "semantic_search"
    /\ last.results # <<>>
    /\ \E q \in Vectors, limit \in Limits, threshold \in Thresholds :
          /\ last.results = SearchNow(q, last.user_id, limit, threshold)
          /\ Len(last.results) < limit
          /\ \E i \in Qualifying(q, last.user_id, 0) :
                /\ i \notin Qualifying(q, last.user_id, threshold)
                /\ vector_store[i].memory_id \notin ResultIds(last.results)

\* C13: between requests, for every search input and every set of entries
\* whose record lookup fails, semantic_search returns a list (it has no way
\* to raise) that holds no entry without a readable record and, up to the
\* limit, every other qualifying entry
DanglingEntriesSkipped ==
    last = Idle =>
        \A q \in Vectors, u \in Users, limit \in Limits, threshold \in Thresholds :
          \A unreadable \in SUBSET CacheIds(vector_store) :
            LET results == SemanticSearch(Db, dynamodb_disabled, q, u, limit,
                                          threshold, unreadable)
                Q == {i \in Qualifying(q, u, threshold) :
                         vector_store[i].memory_id \notin unreadable}
                Ids == {vector_store[i].memory_id : i \in Q}
            IN  /\ ResultIds(results) \subseteq Ids
                /\ ResultIds(results) \cap unreadable = {}
                /\ ResultIds(results) \subseteq DOMAIN memories
                /\ Len(results) = IF Cardinality(Q) < limit THEN Cardinality(Q) ELSE limit
                /\ Cardinality(Q) <= limit => ResultIds(results) = Ids

\* C13 witness: a search returned a memory of its user although an entry of
\* that user that meets the threshold has lost its memory record
ReturnedTheRestOfADanglingEntry ==
    /\ last.op = "semantic_search"
    /\ last.results # <<>>
    /\ \E q \in Vectors, limit \in Limits, threshold \in Thresholds :
          /\ last.results = SearchNow(q, last.user_id, limit, threshold)
          /\ Len(last.results) < limit
          /\ \E i \in DOMAIN vector_store :
                /\ Get(vector_store[i], "user_id", "None") = last.user_id
                /\ vector_store[i].memory_id \notin DOMAIN memories
                /\ AtLeast(CosineSimilarity(q, vector_store[i].embedding), threshold)
                /\ i < CHOOSE j \in DOMAIN vector_store :
                          vector_store[j].memory_id = last.results[1].memory.id

\* what the spec has get_related return: the search of the owner with the
\* cached vector of the memory and threshold 0.5, without the memory itself,
\* cut to limit
RelatedExpected(memory_id, user_id, limit) ==
    Related(SemanticSearch(Db, dynamodb_disabled,
                           CachedEmbedding(vector_store, memory_id), user_id,
                           Len(vector_store) + 1, 50, {}),
            memory_id, limit)

\* C14: a get_related request by the owner of a memory that is in the
\* vector_store is answered with the owner's search for the memory's cached
\* vector at threshold 0.5, without the memory itself, cut to limit
GetRelatedSemantics ==
    (/\ last.op = "get_related_memories"
     /\ last.memory_id \in CacheIds(vector_store)
     /\ last.memory_id \in DOMAIN memories
     /\ memories[last.memory_id].user_id = last.user_id
     /\ last.status # 404) =>
        /\ last.status = 200
        /\ last.related_memories =
              RelatedExpected(last.memory_id, last.user_id, last.limit)
        /\ last.memory_id \notin ResultIds(last.related_memories)
        /\ Len(last.related_memories) <= last.limit

LoadedFrom(memory_id) ==
    /\ Cardinality({i \in DOMAIN vector_store :
                       vector_store[i].memory_id = memory_id}) = 1
    /\ CacheOwner(vector_store, memory_id) = embeddings[memory_id].user_id
    /\ CachedEmbedding(vector_store, memory_id) =
          [k \in DOMAIN embeddings[memory_id].embedding |->
              FromDecimal(embeddings[memory_id].embedding[k])]

\* C16: after a start with DynamoDB available and every vector record well
\* formed, the vector_store holds exactly one entry for every vector record,
\* with its owner and vector, and no other entry
RebuildComplete ==
    (last.op = "load_vectors" /\ ~dynamodb_disabled /\ last.bad = {}) =>
        /\ CacheIds(vector_store) = DOMAIN embeddings
        /\ \A memory_id \in DOMAIN embeddings : LoadedFrom(memory_id)

\* C17: after a start whose scan returned every vector record, the
\* vector_store holds an entry for every record that did not fail to
\* deserialize, whatever its place in the scan, and none for one that failed
RebuildSkipsBadRecords ==
    (last.op = "load_vectors" /\ ~dynamodb_disabled /\ last.complete) =>
        /\ CacheIds(vector_store) = (DOMAIN embeddings) \ last.bad
        /\ \A memory_id \in (DOMAIN embeddings) \ last.bad : LoadedFrom(memory_id)

\* C18: inserts, deletes and the scan of a search exclude each other: from
\* the first turn of the loop of a semantic_search to its return no step
\* changes the cache, every entry the loop reads holds its embedding and its
\* memory id, and the search returns what a search made in one step on the
\* cache would return, without raising
CacheSerialized ==
    [][/\ scan # None => vector_store' = vector_store
       /\ scan # None /\ scan.i <= scan.size =>
            /\ Len(vector_store) = scan.size
            /\ {"embedding", "memory_id"} \subseteq DOMAIN vector_store[scan.i]
       /\ scan # None /\ scan' = None =>
            /\ last'.op = "semantic_search"
            /\ "raised" \notin DOMAIN last'
            /\ last'.results =
                 SemanticSearch(Db, dynamodb_disabled, scan.query_embedding,
                                scan.user_id, scan.limit, scan.threshold, {})]_vars

\* a search is between two turns of its loop, with a result found and an
\* entry still to read
ScanMidway ==
    /\ scan # None
    /\ scan.i > 1
    /\ scan.i <= scan.size
    /\ scan.results # <<>>

\* C19: a by-id request of a caller who is not the owner of the memory is
\* refused: get-memory-by-id returns a memory to its owner alone, and a
\* delete-memory of another user's memory does not succeed and leaves the
\* record in place
ByIdOwnerCheck ==
    /\ last.op = "get_memory_by_id" /\ last.memory # None =>
          Get(last.memory, "user_id", "None") = last.caller
    /\ last.op = "delete_memory" /\ last.existed /\ last.owner # last.caller =>
          /\ ~last.success
          /\ last.memory_id \in DOMAIN memories

\* C20: an ingestion that reports success returns a primary memory id that
\* is not null and that get_memory_by_id answers with the stored memory
SuccessHasUsableId ==
    IsUpload(last) /\ ~last.raised =>
        /\ last.memory_id # None
        /\ GetMemoryById(Db, dynamodb_disabled, last.memory_id, FALSE) # None

\* the chunker has answered
SplitDone == last.op = "split_text_into_chunks"

\* chunk is text without its leading and trailing whitespace
IsTrimOf(chunk, text) ==
    /\ chunk # <<>> => chunk[1] \notin Whitespace /\ chunk[Len(chunk)] \notin Whitespace
    /\ \E i \in 0..Len(text) :
        /\ i + Len(chunk) <= Len(text)
        /\ chunk = SubSeq(text, i + 1, i + Len(chunk))
        /\ \A k \in 1..i : text[k] \in Whitespace
        /\ \A k \in (i + Len(chunk) + 1)..Len(text) : text[k] \in Whitespace

RECURSIVE Joined(_)
Joined(chunks) ==
    IF chunks = <<>> THEN <<>> ELSE Head(chunks) \o Joined(Tail(chunks))

IsContent(c) == c \notin Whitespace \cup {FullStop}

\* a text without its whitespace and without its separators: the blank lines
\* between paragraphs are whitespace, the sentences are separated by full stops
Content(text) == SelectSeq(text, IsContent)

\* C22: the chunks, put one after the other in the order returned, reproduce
\* the text: with the whitespace and the separators left aside, every
\* character of the text is in the chunks once, in its place, and the chunks
\* hold no other character
ChunksReproduceText ==
    SplitDone => Content(Joined(last.text_chunks)) = Content(last.text)

\* a text of two paragraphs that both hold letters went into two or more chunks
SplitAtAParagraphBreak ==
    /\ SplitDone
    /\ Len(last.text_chunks) >= 2
    /\ \E i \in 2..(Len(last.text) - 2) :
        /\ last.text[i] = LineFeed /\ last.text[i + 1] = LineFeed
        /\ Content(SubSeq(last.text, 1, i - 1)) # <<>>
        /\ Content(SubSeq(last.text, i + 2, Len(last.text))) # <<>>

\* C24: no chunk returned by the chunker is the empty string, and the chunk
\* list of the empty text is empty
ChunksNeverEmpty ==
    SplitDone =>
        /\ \A i \in DOMAIN last.text_chunks : last.text_chunks[i] # <<>>
        /\ last.text = <<>> => last.text_chunks = <<>>

\* the number of sentences of a chunk: its pieces between full stops that are
\* not blank
SentenceCount(chunk) ==
    LET pieces == SplitOn(chunk, <<FullStop>>)
    IN  Cardinality({k \in DOMAIN pieces : Strip(pieces[k]) # <<>>})

\* C25: when the text is over the budget, every chunk returned costs at most
\* max_tokens, but for a chunk that is one single sentence, which is returned
\* whole whatever it costs
ChunksWithinBudget ==
    SplitDone /\ EstimateTokens(last.text) > last.max_tokens =>
        \A i \in DOMAIN last.text_chunks :
            \/ EstimateTokens(last.text_chunks[i]) <= last.max_tokens
            \/ SentenceCount(last.text_chunks[i]) <= 1

\* C26: calculate_similarity returns no undefined value: for a vector of
\* norm zero the similarity is a number
SimilarityNeverUndefined ==
    last.op = "calculate_similarity" => ~last.similarity.nan

\* the place of a call in the processing of one chunk
StepRank(call) ==
    CASE call = "embed" -> 1
      [] call = "put_memory" -> 2
      [] call = "put_vector" -> 3
      [] call = "cache_insert" -> 4

\* C27: the calls of one ingestion are made chunk after chunk, in the order
\* of the chunks and from the first chunk on; for each chunk the embedding is
\* requested once and before the put_item of the memory, then the put_item of
\* the vector, then the cache insert, each step made only when the step
\* before it has returned; no call for a chunk is made after a call for a
\* later chunk
IngestionStepOrder ==
    IsUpload(last) =>
        /\ last.calls # <<>>
        /\ last.calls[1].call = "embed" /\ last.calls[1].chunk = 0
        /\ \A j, k \in DOMAIN last.calls :
              j < k =>
                /\ last.calls[j].chunk <= last.calls[k].chunk
                /\ last.calls[j].chunk = last.calls[k].chunk =>
                      /\ StepRank(last.calls[j].call) < StepRank(last.calls[k].call)
                      /\ last.calls[j].ok
        /\ \A j \in DOMAIN last.calls :
              (j > 1 /\ last.calls[j].chunk # last.calls[j - 1].chunk) =>
                 last.calls[j].call = "embed"
        /\ \A j \in DOMAIN last.calls :
              last.calls[j].call # "embed" =>
                 /\ j > 1
                 /\ last.calls[j - 1].chunk = last.calls[j].chunk
                 /\ StepRank(last.calls[j - 1].call) + 1 = StepRank(last.calls[j].call)

\* a document of three chunks or more was ingested, its second chunk skipped
\* at the embedding request and its third chunk stored and cached
EmbeddedTheThirdAfterSkippingTheSecond ==
    /\ last.op = "parse_file"
    /\ ~last.raised
    /\ Len(last.text_chunks) >= 3
    /\ last.outcomes[2] = "embed"
    /\ CallsOf(last.calls, "cache_insert", 2) # {}

\* the memories of an owner, newest first
OwnedNewestFirst(user_id) ==
    LET ids == {id \in DOMAIN memories : memories[id].user_id = user_id}
        some == CHOOSE o \in [1..Cardinality(ids) -> ids] :
                    \A i, j \in 1..Cardinality(ids) : i # j => o[i] # o[j]
    IN  SortByCreatedAtDesc([k \in DOMAIN some |-> memories[some[k]]])

\* C28: a listing that DynamoDB answers returns the memories of the caller
\* at the positions offset .. offset + limit - 1 of the caller's memories
\* taken newest first, and no memory of another owner
ListPagination ==
    (last.op = "get_memories" /\ ~dynamodb_disabled /\ ~last.read_fails
       /\ last.memory_type = "None") =>
        last.memories = Slice(OwnedNewestFirst(last.user_id), last.offset, last.limit)

\* the turns of a conversation, empty when there is none
HistoryOf(history, key) == IF key \in DOMAIN history THEN history[key] ELSE <<>>

\* the n most recent elements of turns, in their order
MostRecent(turns, n) ==
    LET kept == IF Len(turns) < n THEN Len(turns) ELSE n
    IN  [i \in 1..kept |-> turns[Len(turns) - kept + i]]

\* C29: every conversation keeps at most 20 turns, in the order they were
\* sent; a chat turn leaves in its conversation the 20 most recent of the
\* turns it held and the new one, and leaves every other conversation as
\* it was
BoundedHistory ==
    /\ [](\A key \in DOMAIN conversation_history :
            LET turns == conversation_history[key]
            IN  /\ Len(turns) <= 20
                /\ \A i \in 1..(Len(turns) - 1) :
                      turns[i + 1].user_input = turns[i].user_input + 1)
    /\ [][last'.op = "chat_with_memory" =>
            /\ conversation_history'[last'.key] =
                  MostRecent(Append(HistoryOf(conversation_history, last'.key),
                                    [user_input |-> last'.user_input,
                                     response |-> last'.generated]), 20)
            /\ \A key \in DOMAIN conversation_history :
                  key # last'.key =>
                     /\ key \in DOMAIN conversation_history'
                     /\ conversation_history'[key] = conversation_history[key]]_vars

\* a conversation is full and has lost its two oldest turns to a chat turn
\* made while another conversation was held
DroppedTheOldestTurns ==
    /\ last.op = "chat_with_memory"
    /\ Len(conversation_history[last.key]) = 20
    /\ conversation_history[last.key][1].user_input = 3
    /\ \E key \in DOMAIN conversation_history :
          key # last.key /\ conversation_history[key] # <<>>

\* C23: a chat turn tries to keep the turn as a conversation memory exactly
\* when the generated response is longer than 50 characters and holds no
\* marker; a turn that is kept is stored as a memory of type conversation
FeedbackPolicy ==
    last.op = "chat_with_memory" =>
        /\ last.attempted <=> (last.generated.length > 50 /\ ~last.generated.marker)
        /\ last.memory_id # None =>
              /\ last.attempted
              /\ memories[last.memory_id].memory_type = "conversation"

\* a response of 51 characters without the marker was kept as a memory
KeptAResponseJustLongEnough ==
    /\ last.op = "chat_with_memory"
    /\ last.generated = Response(51, FALSE)
    /\ last.memory_id # None
    /\ last.memory_id \in DOMAIN memories

\* C30: a chat turn raises nothing; when the retrieval of memories fails
\* the turn goes on without relevant memories, and whatever fails while the
\* turn is kept as a memory, the answer is the generated response and the
\* turn is the last of its conversation
ChatResilient ==
    last.op = "chat_with_memory" =>
        /\ ~last.raised
        /\ ~last.error
        /\ last.response = last.generated
        /\ last.retrieval_fault # "none" =>
              last.relevant_memories = <<>> /\ last.context_used = 0
        /\ last.key \in DOMAIN conversation_history
        /\ LET turns == conversation_history[last.key]
           IN  /\ turns # <<>>
               /\ turns[Len(turns)] = [user_input |-> last.user_input,
                                       response |-> last.generated]

\* a turn whose retrieval found a memory was answered although the write of
\* the conversation memory failed
AnsweredAlthoughStoringFailed ==
    /\ last.op = "chat_with_memory"
    /\ last.relevant_memories # <<>>
    /\ last.ingest_fault \in {"put_memory", "put_vector"}
    /\ last.attempted
    /\ last.memory_id = None

\* a turn whose retrieval failed was answered without memories although the
\* store held a memory the search would have found
AnsweredAlthoughRetrievalFailed ==
    /\ last.op = "chat_with_memory"
    /\ last.retrieval_fault # "none"
    /\ \E q \in Vectors :
          SemanticSearch(Db, dynamodb_disabled, q, last.user_id,
                         MaxContextMemories, SimilarityThreshold, {}) # <<>>

====
